---- MODULE Spec2Model ----
(***************************************************************************)
(* A model of pytype's special built-ins (pytype/special_builtins.py):     *)
(* type.__new__ (TypeNew), isinstance (IsInstance), super (Super) and the  *)
(* lookup proxy SuperInstance.  Every action is one complete call of one   *)
(* of their methods on an Arguments record chosen from a bounded universe  *)
(* of abstract values.                                                     *)
(***************************************************************************)
EXTENDS Integers, Sequences, FiniteSets, TLC

(***************************************************************************)
(* Bounds of the model.                                                    *)
(***************************************************************************)
\* Total number of abstract values (and empty Variables / empty tuples) in
\* the argument Variables of a call of isinstance or super with two
\* positional arguments.
MaxWeight == 4
\* Largest number of positional arguments of a call.
MaxPosargs == 4
\* Number of SuperInstance objects that can be alive at once.
MaxHeap == 8

(***************************************************************************)
(* Abstract values, bindings and variables.                                *)
(***************************************************************************)
None == [kind |-> "None"]

Class(name) == [kind |-> "Class", name |-> name]

Unsolvable == [kind |-> "Unsolvable"]

Instance(cls) == [kind |-> "Instance", cls |-> cls]

Tuple(pyval) == [kind |-> "Tuple", pyval |-> pyval]

\* abstract.AMBIGUOUS_OR_EMPTY = (Unknown, Unsolvable, Empty)
AMBIGUOUS_OR_EMPTY == {"Unknown", "Unsolvable", "Empty"}

\* A Binding of an argument Variable; it is identified by its position in
\* the Variable.
Binding(data) == [data |-> data]

RECURSIVE Bindings(_)

\* One Binding per element of datas, in insertion order.
Bindings(datas) ==
  IF datas = <<>> THEN <<>>
  ELSE <<Binding(Head(datas))>> \o Bindings(Tail(datas))

\* A Variable holding these Bindings.
Variable(datas) == [bindings |-> Bindings(datas)]

\* program.NewVariable(): a Variable without bindings.
NewVariable == [bindings |-> <<>>]

\* Variable.AddBinding(data, source_set, where): appends a Binding.
AddBinding(var, data, source_set, where) ==
  [bindings |-> Append(var.bindings,
                       [data |-> data, source_set |-> source_set, where |-> where])]

\* A reference to the idx-th Binding of the var-th positional argument.
BindingRef(var, idx) == [var |-> var, idx |-> idx]

\* Class.mro of the classes of the universe: C and D derive from object,
\* E derives from C.
mro(cls) ==
  CASE cls.name = "object" -> <<Class("object")>>
    [] cls.name = "C" -> <<Class("C"), Class("object")>>
    [] cls.name = "D" -> <<Class("D"), Class("object")>>
    [] cls.name = "E" -> <<Class("E"), Class("C"), Class("object")>>
    [] OTHER -> <<>>

\* AtomicAbstractValue.get_class(): the class Variable of an instance, the
\* fixed cls of a SuperInstance.
get_class(value) ==
  IF value.kind \in {"Instance", "SuperInstance"} THEN value.cls ELSE None

\* abstract.get_atomic_value(variable) raises ConversionError unless the
\* Variable holds exactly one binding.
ConversionError(variable) == Len(variable.bindings) # 1

get_atomic_value(variable) == variable.bindings[1].data

\* vm.convert.true, vm.convert.false, vm.convert.primitive_class_instances[bool]
convert_true == [kind |-> "PythonConstant", pyval |-> "True"]

convert_false == [kind |-> "PythonConstant", pyval |-> "False"]

convert_bool_instance == Instance(Variable(<<Class("bool")>>))

\* vm.convert.create_new_unsolvable(node): a new Variable with a single
\* Unsolvable bound at node.
create_new_unsolvable(node) == AddBinding(NewVariable, Unsolvable, <<>>, node)

(***************************************************************************)
(* IsInstance                                                              *)
(***************************************************************************)
\* IsInstance._vm_values: True/False/None to vm values.
vm_values(pyval) ==
  CASE pyval = "True" -> convert_true
    [] pyval = "False" -> convert_false
    [] pyval = "None" -> convert_bool_instance

RECURSIVE flatten(_, _)
RECURSIVE flatten_pyval(_, _, _, _)

\* IsInstance._flatten(value, classes): the list classes after the call and
\* the returned flag.
flatten(value, classes) ==
  IF value.kind = "Class"
  THEN [ambiguous |-> FALSE, classes |-> Append(classes, value)]
  ELSE IF value.kind = "Tuple"
  THEN flatten_pyval(value.pyval, 1, FALSE, classes)
  ELSE [ambiguous |-> TRUE, classes |-> classes]

\* A faulty variant of the loop: it stops at the first element without
\* exactly one binding, and so loses the classes after it.
flatten_pyval_break(pyval, i, ambiguous, classes) ==
  IF i > Len(pyval)
  THEN [ambiguous |-> ambiguous, classes |-> classes]
  ELSE LET var == pyval[i] IN
       IF Len(var.bindings) # 1
       THEN [ambiguous |-> TRUE, classes |-> classes]
       ELSE LET sub == flatten(var.bindings[1].data, classes) IN
            flatten_pyval(pyval, i + 1, ambiguous \/ sub.ambiguous, sub.classes)

\* The loop "for var in value.pyval" of _flatten, from element i on.
flatten_pyval(pyval, i, ambiguous, classes) ==
  IF i > Len(pyval)
  THEN [ambiguous |-> ambiguous, classes |-> classes]
  ELSE LET var == pyval[i] IN
       IF Len(var.bindings) # 1
       THEN flatten_pyval(pyval, i + 1, TRUE, classes)
       ELSE LET sub == flatten(var.bindings[1].data, classes) IN
            flatten_pyval(pyval, i + 1, ambiguous \/ sub.ambiguous, sub.classes)

\* "c in obj_class.mro"
in_mro(c, obj_class) == \E k \in 1..Len(mro(obj_class)) : mro(obj_class)[k] = c

\* A faulty variant of _is_instance: it forgets the flag _flatten returns.
is_instance_flag_dropped(obj, class_spec) ==
  IF obj.kind \in AMBIGUOUS_OR_EMPTY THEN "None"
  ELSE LET cls_var == get_class(obj) IN
       IF cls_var = None THEN "None"
       ELSE IF ConversionError(cls_var) THEN "None"
       ELSE LET obj_class == get_atomic_value(cls_var)
                flat == flatten(class_spec, <<>>)
            IN IF \E k \in 1..Len(flat.classes) : in_mro(flat.classes[k], obj_class)
               THEN "True"
               ELSE "False"

\* IsInstance._is_instance(obj, class_spec): "True", "False" or "None".
is_instance(obj, class_spec) ==
  IF obj.kind \in AMBIGUOUS_OR_EMPTY THEN "None"
  ELSE LET cls_var == get_class(obj) IN
       IF cls_var = None THEN "None"
       ELSE IF ConversionError(cls_var) THEN "None"
       ELSE LET obj_class == get_atomic_value(cls_var)
                flat == flatten(class_spec, <<>>)
            IN IF \E k \in 1..Len(flat.classes) : in_mro(flat.classes[k], obj_class)
               THEN "True"
               ELSE IF flat.ambiguous THEN "None" ELSE "False"

(***************************************************************************)
(* The universe of argument values.                                        *)
(***************************************************************************)
\* Values a class specification is built from.
TypeLeaves == {Class("C"), Class("D"), Unsolvable}

\* Values the object of an isinstance call is bound to.
ObjLeaves ==
  {Unsolvable, Instance(None), Instance(Variable(<<>>)),
   Instance(Variable(<<Class("C")>>)), Instance(Variable(<<Class("E")>>)),
   Instance(Variable(<<Class("C"), Class("D")>>))}

\* The class specifications of weight w, given those of smaller weight: a
\* leaf or an empty tuple weighs 1, a tuple 1 more than its elements, an
\* empty Variable 1.  values: the class specifications of weight w;
\* dataseqs: the sequences of them of total weight w; variables: the
\* Variables of weight w bound to them; varseqs: the sequences of such
\* Variables of total weight w (the contents of a tuple of weight w + 1).
TypeLevel(table, w) ==
  LET values == (IF w = 1 THEN TypeLeaves ELSE {})
                \cup {Tuple(vs) : vs \in table[w].varseqs}
      dataseqs == UNION {{<<x>> \o rest :
                            x \in (IF a = w THEN values ELSE table[a + 1].values),
                            rest \in table[w - a + 1].dataseqs}
                         : a \in 1..w}
      variables == (IF w = 1 THEN {Variable(<<>>)} ELSE {})
                   \cup {Variable(ds) : ds \in dataseqs}
      varseqs == IF w > MaxWeight - 2 THEN {}
                 ELSE UNION {{<<v>> \o rest :
                                v \in (IF a = w THEN variables
                                       ELSE table[a + 1].variables),
                                rest \in table[w - a + 1].varseqs}
                             : a \in 1..w}
  IN [values |-> values, dataseqs |-> dataseqs,
      variables |-> variables, varseqs |-> varseqs]

RECURSIVE TypeTable(_)

\* The levels of weight 0 to w, in a sequence (weight a at index a + 1).
TypeTable(w) ==
  IF w = 0
  THEN <<[values |-> {}, dataseqs |-> {<<>>}, variables |-> {}, varseqs |-> {<<>>}]>>
  ELSE LET table == TypeTable(w - 1) IN Append(table, TypeLevel(table, w))

TypeUniverse == TypeTable(MaxWeight - 1)

TypeVariables(w) == TypeUniverse[w + 1].variables

RECURSIVE ObjDataSeqs(_)

ObjDataSeqs(w) ==
  IF w = 0 THEN {<<>>}
  ELSE {<<x>> \o rest : x \in ObjLeaves, rest \in ObjDataSeqs(w - 1)}

\* The Variables of weight w an object is bound to.
ObjVariables(w) ==
  (IF w = 1 THEN {Variable(<<>>)} ELSE {})
  \cup {Variable(ds) : ds \in ObjDataSeqs(w)}

ObjVariablesUpTo(w) == UNION {ObjVariables(a) : a \in 1..w}

\* The positional arguments (obj, type_or_types) of total weight at most
\* MaxWeight whose class specification weighs b.
IsInstancePosargs(b) ==
  {<<o, t>> : o \in ObjVariablesUpTo(MaxWeight - b), t \in TypeVariables(b)}

\* Variables the calls with a wrong number of arguments, the keyword
\* arguments and the methods of a SuperInstance are given.
ArityVariables ==
  {Variable(<<>>), Variable(<<Class("C")>>), Variable(<<Unsolvable>>)}

RECURSIVE ArityPosargs(_)

\* The sequences of n such Variables.
ArityPosargs(n) ==
  IF n = 0 THEN {<<>>}
  ELSE {<<v>> \o rest : v \in ArityVariables, rest \in ArityPosargs(n - 1)}

KeywordNames == {"kw"}

\* Arguments.namedargs: a mapping from names to Variables.
Namedargs ==
  {[k \in keys |-> Variable(<<Unsolvable>>)] : keys \in SUBSET KeywordNames}

NoNamedargs == [k \in {} |-> Variable(<<Unsolvable>>)]

Arguments(posargs, namedargs) == [posargs |-> posargs, namedargs |-> namedargs]

\* The Arguments records with any number of positional arguments, with and
\* without keywords.
ArityArguments ==
  {Arguments(p, k) : p \in UNION {ArityPosargs(n) : n \in 0..MaxPosargs},
                     k \in Namedargs}

\* Elements of a tuple of candidate classes: a class of the MRO or not,
\* alone, beside another binding, and an element without binding.
SiblingVariables ==
  {Variable(<<Class("C")>>), Variable(<<Class("D")>>),
   Variable(<<Class("C"), Class("D")>>), Variable(<<Class("D"), Class("C")>>),
   Variable(<<>>)}

\* The positional arguments (obj, type_or_types) where type_or_types is a
\* tuple of two such elements.
SiblingPosargs ==
  {<<Variable(<<o>>), Variable(<<Tuple(<<a, b>>)>>)>> :
     o \in {Instance(Variable(<<Class("C")>>)), Instance(Variable(<<Class("E")>>))},
     a \in SiblingVariables, b \in SiblingVariables}

\* The Arguments records isinstance is called with: the well-formed ones and
\* those of every shape.
IsIsInstanceArguments(a) ==
  \/ \E b \in 1..(MaxWeight - 1) :
       \E p \in IsInstancePosargs(b) : a = Arguments(p, NoNamedargs)
  \/ \E p \in SiblingPosargs : a = Arguments(p, NoNamedargs)
  \/ a \in ArityArguments

\* Values the arguments of super are bound to.
ClsLeaves == {Class("C"), Unsolvable, Instance(Variable(<<Class("C")>>))}

ObjectLeaves == {Instance(Variable(<<Class("E")>>)), Unsolvable}

RECURSIVE LeafSeqs(_, _)

LeafSeqs(leaves, w) ==
  IF w = 0 THEN {<<>>}
  ELSE {<<x>> \o rest : x \in leaves, rest \in LeafSeqs(leaves, w - 1)}

\* The Variables of weight w over leaves (an empty Variable weighs 1).
LeafVariables(leaves, w) ==
  (IF w = 1 THEN {Variable(<<>>)} ELSE {})
  \cup {Variable(ds) : ds \in LeafSeqs(leaves, w)}

LeafVariablesUpTo(leaves, w) == UNION {LeafVariables(leaves, a) : a \in 1..w}

\* The Arguments records super is called with: one or two arguments of total
\* weight at most MaxWeight, with and without keywords, and those of every
\* shape.
IsSuperArguments(a) ==
  \/ \E c \in LeafVariablesUpTo(ClsLeaves, MaxWeight - 1), k \in Namedargs :
       a = Arguments(<<c>>, k)
  \/ \E b \in 1..(MaxWeight - 1) :
       \E c \in LeafVariables(ClsLeaves, b),
          o \in LeafVariablesUpTo(ObjectLeaves, MaxWeight - b),
          k \in Namedargs :
         a = Arguments(<<c, o>>, k)
  \/ a \in ArityArguments

\* Program points.
CFGNode(id) == [kind |-> "CFGNode", id |-> id]

Nodes == {CFGNode(1), CFGNode(2)}

(***************************************************************************)
(* Failures of a call.                                                     *)
(***************************************************************************)
WrongArgCount(sig, args) == [type |-> "WrongArgCount", signature |-> sig]

WrongKeywordArgs(sig, args, extra_keywords) ==
  [type |-> "WrongKeywordArgs", signature |-> sig,
   extra_keywords |-> extra_keywords]

BadParam(name, expected) == [name |-> name, expected |-> expected]

WrongArgTypes(sig, args, bad_param) ==
  [type |-> "WrongArgTypes", signature |-> sig, bad_param |-> bad_param]

FailedFunctionCall == [type |-> "FailedFunctionCall"]

\* The exception classes "except abstract.InvalidParameters" catches.
InvalidParameters ==
  {"InvalidParameters", "WrongArgCount", "WrongKeywordArgs", "WrongArgTypes"}

\* What a call leaves behind: the exception that escaped it (or None), the
\* result Variable it built (or None), the node it returned (None when it
\* raised), its invocations of the error log and of its collaborators.
Outcome(raised, result, ret_node, errorlog, calls) ==
  [raised |-> raised, result |-> result, ret_node |-> ret_node,
   errorlog |-> errorlog, calls |-> calls]

(***************************************************************************)
(* IsInstance.call                                                         *)
(***************************************************************************)
IsInstance_SIGNATURE == "isinstance"

RECURSIVE IsInstance_loop(_, _, _, _, _)

\* The loops over args.posargs[0].bindings and args.posargs[1].bindings,
\* from the pair (i, j) on.
IsInstance_loop(result, posargs, i, j, node) ==
  IF i > Len(posargs[1].bindings) THEN result
  ELSE IF j > Len(posargs[2].bindings)
  THEN IsInstance_loop(result, posargs, i + 1, 1, node)
  ELSE LET left == posargs[1].bindings[i]
           right == posargs[2].bindings[j]
           pyval == is_instance(left.data, right.data)
       IN IsInstance_loop(
            AddBinding(result, vm_values(pyval),
                       <<BindingRef(1, i), BindingRef(2, j)>>, node),
            posargs, i, j + 1, node)

\* A faulty variant of the body of the try statement: it does not look at
\* the keyword arguments.
IsInstance_try_keywords_ignored(node, args) ==
  IF Len(args.posargs) # 2
  THEN [raised |-> WrongArgCount(IsInstance_SIGNATURE, args), result |-> None]
  ELSE [raised |-> None,
        result |-> IsInstance_loop(NewVariable, args.posargs, 1, 1, node)]

\* The body of the try statement: the exception it raises, or the result.
IsInstance_try(node, args) ==
  IF Len(args.posargs) # 2
  THEN [raised |-> WrongArgCount(IsInstance_SIGNATURE, args), result |-> None]
  ELSE IF DOMAIN args.namedargs # {}
  THEN [raised |-> WrongKeywordArgs(IsInstance_SIGNATURE, args,
                                    DOMAIN args.namedargs),
        result |-> None]
  ELSE [raised |-> None,
        result |-> IsInstance_loop(NewVariable, args.posargs, 1, 1, node)]

IsInstance_call(node, args) ==
  LET try == IsInstance_try(node, args) IN
  IF try.raised = None
  THEN Outcome(None, try.result, node, <<>>, <<>>)
  ELSE IF try.raised.type \in InvalidParameters
  THEN Outcome(None, create_new_unsolvable(node), node,
               <<[method |-> "invalid_function_call", ex |-> try.raised]>>, <<>>)
  ELSE Outcome(try.raised, None, None, <<>>, <<>>)

(***************************************************************************)
(* SuperInstance                                                           *)
(***************************************************************************)
\* vm.convert.super_type
super_type == Variable(<<Class("super")>>)

\* vm.convert.type_type.data[0]
type_type == Class("type")

\* SuperInstance.__init__(cls, obj, vm); id is the identity of the new
\* object.
SuperInstance(cls, obj, id) ==
  [kind |-> "SuperInstance", id |-> id, cls |-> super_type,
   super_cls |-> cls, super_obj |-> obj]

\* abstract.NativeFunction(name, func, vm), func a method bound to self.
NativeFunction(name, func, self) ==
  [kind |-> "NativeFunction", name |-> name, func |-> func, self |-> self]

\* self.get and self.set as __init__ leaves them.
SuperInstance_get_attr(self) == NativeFunction("__get__", "get", self)

SuperInstance_set_attr(self) == NativeFunction("__set__", "set", self)

\* AtomicAbstractValue.to_variable(node): a new Variable holding the value.
to_variable(value, node) == AddBinding(NewVariable, value, <<>>, node)

\* A faulty variant of get: it returns an unbound copy of the object.
SuperInstance_get_unbound(self, node, args) ==
  Outcome(None,
          to_variable([self EXCEPT !.super_obj = None], node),
          node, <<>>, <<>>)

\* SuperInstance.get(node, *unused_args, **unused_kwargs)
SuperInstance_get(self, node, args) ==
  Outcome(None, to_variable(self, node), node, <<>>, <<>>)

\* SuperInstance.set(node, *unused_args, **unused_kwargs)
SuperInstance_set(self, node, args) ==
  Outcome(None, to_variable(self, node), node, <<>>, <<>>)

\* SuperInstance.get_special_attribute(node, name, valself): it returns a
\* Variable and no node.
SuperInstance_get_special_attribute(self, node, name, valself) ==
  IF name = "__get__"
  THEN Outcome(None, to_variable(SuperInstance_get_attr(self), node), None, <<>>, <<>>)
  ELSE IF name = "__set__"
  THEN Outcome(None, to_variable(SuperInstance_set_attr(self), node), None, <<>>, <<>>)
  ELSE Outcome(None, None, None, <<>>,
               <<[callee |-> "AtomicAbstractValue.get_special_attribute",
                  args |-> <<node, name, valself>>]>>)

\* SuperInstance.get_class()
SuperInstance_get_class(self) == self.cls

\* SuperInstance.call(node, _, args)
SuperInstance_call(self, node, args) ==
  Outcome(None, to_variable(Unsolvable, node), node,
          <<[method |-> "not_callable", value |-> self]>>, <<>>)

(***************************************************************************)
(* Super.call                                                              *)
(***************************************************************************)
Super_SIGNATURE == "super"

RECURSIVE Super_loop1(_, _, _, _, _)

\* A faulty variant of the loop of the branch len(args.posargs) == 1: every
\* binding of the result holds the SuperInstance of the first.
Super_loop1_shared(result, posargs, i, node, ids) ==
  IF i > Len(posargs[1].bindings) THEN result
  ELSE Super_loop1(
         AddBinding(result,
                    SuperInstance(posargs[1].bindings[1].data, None, ids[1]),
                    <<BindingRef(1, i)>>, node),
         posargs, i + 1, node, ids)

\* The loop of the branch len(args.posargs) == 1, from binding i on; ids are
\* the identities of the objects the call creates, in order.
Super_loop1(result, posargs, i, node, ids) ==
  IF i > Len(posargs[1].bindings) THEN result
  ELSE LET cls == posargs[1].bindings[i] IN
       Super_loop1(
         AddBinding(result,
                    SuperInstance(cls.data, None, ids[Len(result.bindings) + 1]),
                    <<BindingRef(1, i)>>, node),
         posargs, i + 1, node, ids)

\* A faulty variant of the check of cls: it takes a Class only.
Super_cls_ok_class_only(data) == data.kind = "Class"

\* "isinstance(cls.data, (abstract.Class, abstract.AMBIGUOUS_OR_EMPTY))"
Super_cls_ok(data) == data.kind = "Class" \/ data.kind \in AMBIGUOUS_OR_EMPTY

RECURSIVE Super_loop2(_, _, _, _, _, _, _)

\* The loops of the branch len(args.posargs) == 2, from the pair (i, j) on:
\* the exception they raise (or None) and the result Variable as it is then.
Super_loop2(result, args, i, j, node, ids, sig) ==
  IF i > Len(args.posargs[1].bindings) THEN [raised |-> None, result |-> result]
  ELSE LET cls == args.posargs[1].bindings[i] IN
       IF j = 1 /\ ~Super_cls_ok(cls.data)
       THEN [raised |-> WrongArgTypes(sig, args, BadParam("cls", type_type)),
             result |-> result]
       ELSE IF j > Len(args.posargs[2].bindings)
       THEN Super_loop2(result, args, i + 1, 1, node, ids, sig)
       ELSE LET obj == args.posargs[2].bindings[j] IN
            Super_loop2(
              AddBinding(result,
                         SuperInstance(cls.data, obj.data,
                                       ids[Len(result.bindings) + 1]),
                         <<BindingRef(1, i), BindingRef(2, j)>>, node),
              args, i, j + 1, node, ids, sig)

\* A faulty variant of Super.call: it catches the errors of the shape of
\* the call as IsInstance.call does.
Super_call_caught(node, args, ids) ==
  IF Len(args.posargs) = 1
  THEN Outcome(None, Super_loop1(NewVariable, args.posargs, 1, node, ids),
               node, <<>>, <<>>)
  ELSE LET raised == IF Len(args.posargs) = 2
                     THEN Super_loop2(NewVariable, args, 1, 1, node, ids,
                                      Super_SIGNATURE)
                     ELSE [raised |-> WrongArgCount(Super_SIGNATURE, args),
                           result |-> NewVariable]
       IN IF raised.raised = None
          THEN Outcome(None, raised.result, node, <<>>, <<>>)
          ELSE Outcome(None, create_new_unsolvable(node), node,
                       <<[method |-> "invalid_function_call",
                          ex |-> raised.raised]>>, <<>>)

Super_call(node, args, ids) ==
  IF Len(args.posargs) = 1
  THEN Outcome(None, Super_loop1(NewVariable, args.posargs, 1, node, ids),
               node, <<>>, <<>>)
  ELSE IF Len(args.posargs) = 2
  THEN LET loop == Super_loop2(NewVariable, args, 1, 1, node, ids, Super_SIGNATURE) IN
       IF loop.raised = None
       THEN Outcome(None, loop.result, node, <<>>, <<>>)
       ELSE Outcome(loop.raised, loop.result, None, <<>>, <<>>)
  ELSE Outcome(WrongArgCount(Super_SIGNATURE, args), NewVariable, None, <<>>, <<>>)

\* The number of SuperInstance objects a call can create.
Super_needs(args) ==
  IF Len(args.posargs) = 1 THEN Len(args.posargs[1].bindings)
  ELSE IF Len(args.posargs) = 2
  THEN Len(args.posargs[1].bindings) * Len(args.posargs[2].bindings)
  ELSE 0

(***************************************************************************)
(* TypeNew.call                                                            *)
(***************************************************************************)
\* vm.convert.object_type
object_type == Variable(<<Class("object")>>)

\* PyTDFunction._match_args(node, args) raises FailedFunctionCall when the
\* arguments do not match the signature of type.__new__, which takes no
\* keyword arguments.
match_args_fails(node, args) == DOMAIN args.namedargs # {}

\* abstract.get_atomic_python_constant(variable) raises ConversionError
\* unless the Variable holds one constant sequence of unambiguous elements.
python_constant_ConversionError(variable) ==
  \/ Len(variable.bindings) # 1
  \/ variable.bindings[1].data.kind # "Tuple"
  \/ \E k \in 1..Len(variable.bindings[1].data.pyval) :
       Len(variable.bindings[1].data.pyval[k].bindings) # 1

get_atomic_python_constant(variable) == variable.bindings[1].data.pyval

\* vm.make_class(node, name_var, bases, class_dict_var, cls): a Variable
\* holding the new class.
make_class(node, name_var, bases, class_dict_var, cls) ==
  to_variable([kind |-> "Class", name |-> "made", name_var |-> name_var,
               bases |-> bases, class_dict_var |-> class_dict_var, cls |-> cls],
              node)

\* super(TypeNew, self).call(node, func, args): the generic call of a
\* PyTDFunction.
PyTDFunction_call(node, func, args) ==
  Outcome(None, to_variable(Unsolvable, node), node, <<>>,
          <<[callee |-> "PyTDFunction.call", args |-> <<node, func, args>>]>>)

\* A faulty variant of TypeNew.call: an empty sequence of bases stays empty.
TypeNew_call_no_default(node, func, args) ==
  IF Len(args.posargs) = 4
  THEN IF match_args_fails(node, args)
       THEN Outcome(FailedFunctionCall, None, None, <<>>, <<>>)
       ELSE IF python_constant_ConversionError(args.posargs[3])
       THEN PyTDFunction_call(node, func, args)
       ELSE LET bases == get_atomic_python_constant(args.posargs[3]) IN
            Outcome(None,
                    make_class(node, args.posargs[2], bases, args.posargs[4],
                               args.posargs[1]),
                    node, <<>>,
                    <<[callee |-> "make_class",
                       args |-> <<node, args.posargs[2], bases,
                                  args.posargs[4], args.posargs[1]>>]>>)
  ELSE PyTDFunction_call(node, func, args)

TypeNew_call(node, func, args) ==
  IF Len(args.posargs) = 4
  THEN IF match_args_fails(node, args)
       THEN Outcome(FailedFunctionCall, None, None, <<>>, <<>>)
       ELSE LET cls == args.posargs[1]
                name_var == args.posargs[2]
                bases_var == args.posargs[3]
                class_dict_var == args.posargs[4]
            IN IF python_constant_ConversionError(bases_var)
               THEN PyTDFunction_call(node, func, args)
               ELSE LET constant == get_atomic_python_constant(bases_var)
                        bases == IF constant = <<>> THEN <<object_type>>
                                 ELSE constant
                    IN Outcome(None,
                               make_class(node, name_var, bases, class_dict_var, cls),
                               node, <<>>,
                               <<[callee |-> "make_class",
                                  args |-> <<node, name_var, bases,
                                             class_dict_var, cls>>]>>)
  ELSE PyTDFunction_call(node, func, args)

\* The Variables a base class of a new class is given as.
BaseVariables ==
  {Variable(<<Class("C")>>), Variable(<<Class("D")>>),
   Variable(<<Class("C"), Class("D")>>)}

\* The Variables bases_var is bound to: constant tuples of up to two bases,
\* a value that is no constant, no binding and two bindings.
BasesVariables ==
  {Variable(<<Tuple(<<>>)>>)}
  \cup {Variable(<<Tuple(<<a>>)>>) : a \in BaseVariables}
  \cup {Variable(<<Tuple(<<a, b>>)>>) : a \in BaseVariables, b \in BaseVariables}
  \cup {Variable(<<Unsolvable>>), Variable(<<>>),
        Variable(<<Tuple(<<>>), Tuple(<<Variable(<<Class("C")>>)>>)>>)}

\* The Arguments records type.__new__ is called with.
IsTypeNewArguments(a) ==
  \/ \E bases_var \in BasesVariables, k \in Namedargs :
       a = Arguments(<<Variable(<<Class("type")>>),
                       Variable(<<Instance(Variable(<<Class("str")>>))>>),
                       bases_var,
                       Variable(<<Instance(Variable(<<Class("dict")>>))>>)>>, k)
  \/ a \in ArityArguments

(***************************************************************************)
(* The state: a call of a built-in, before and after it is made.           *)
(***************************************************************************)
VARIABLES
  op,        \* "init" before the call, then the method that was called
  callee,    \* the abstract value that is called
  node,      \* the node the call is given
  args,      \* the Arguments record (or the attribute name) it is given
  raised,    \* the exception that escaped the call, or None
  result,    \* the result Variable the call built and, unless it raised, returned
  ret_node,  \* the node the call returned, or None
  errorlog,  \* the invocations of vm.errorlog during the call
  calls      \* the invocations of collaborators during the call

vars == <<op, callee, node, args, raised, result, ret_node, errorlog, calls>>

\* The built-ins the vm holds.
TypeNew == [kind |-> "TypeNew", name |-> "__new__"]

IsInstance == [kind |-> "IsInstance", name |-> "isinstance"]

Super == [kind |-> "Super", name |-> "super"]

\* The interpreter is about to call a built-in at a node with an Arguments
\* record.
Init ==
  /\ op = "init"
  /\ \/ callee = TypeNew /\ IsTypeNewArguments(args)
     \/ callee = IsInstance /\ IsIsInstanceArguments(args)
     \/ callee = Super /\ IsSuperArguments(args)
  /\ node \in Nodes
  /\ raised = None
  /\ result = None
  /\ ret_node = None
  /\ errorlog = <<>>
  /\ calls = <<>>

\* The values the interpreter holds after the call: what it returned.
Held ==
  IF raised = None /\ result # None
  THEN {result.bindings[k].data : k \in 1..Len(result.bindings)}
  ELSE {}

\* The SuperInstance objects that are alive.
LiveInstances ==
  {v \in Held : v.kind = "SuperInstance"}
  \cup {f.self : f \in {v \in Held : v.kind = "NativeFunction"}}

RECURSIVE Ascending(_)

Ascending(S) ==
  IF S = {} THEN <<>>
  ELSE LET least == CHOOSE x \in S : \A y \in S : x <= y
       IN <<least>> \o Ascending(S \ {least})

\* The identities a new object can take: those of no live object.
FreeIds == Ascending((1..MaxHeap) \ {s.id : s \in LiveInstances})

\* One call: the state records the call and what it left behind.
Call(method, self, n, a, outcome) ==
  /\ op' = method
  /\ callee' = self
  /\ node' = n
  /\ args' = a
  /\ raised' = outcome.raised
  /\ result' = outcome.result
  /\ ret_node' = outcome.ret_node
  /\ errorlog' = outcome.errorlog
  /\ calls' = outcome.calls

TypeNewCall ==
  /\ op = "init"
  /\ callee = TypeNew
  /\ Call("TypeNew.call", TypeNew, node, args, TypeNew_call(node, TypeNew, args))

IsInstanceCall ==
  /\ op = "init"
  /\ callee = IsInstance
  /\ Call("IsInstance.call", IsInstance, node, args, IsInstance_call(node, args))

\* super is called; the same call is made again (the call site is run a
\* second time) while the SuperInstance objects of the first are alive.
SuperCall ==
  /\ \/ op = "init" /\ callee = Super
     \/ op = "Super.call" /\ raised = None
  /\ Super_needs(args) <= Len(FreeIds)
  /\ Call("Super.call", Super, node, args, Super_call(node, args, FreeIds))

AttributeNames == {"__get__", "__set__", "__init__"}

\* The Arguments records the methods of a SuperInstance are called with.
MethodArguments ==
  {Arguments(p, k) : p \in ArityPosargs(0) \cup ArityPosargs(1), k \in Namedargs}

SuperInstanceGetSpecialAttribute ==
  \E self \in LiveInstances, n \in Nodes, name \in AttributeNames :
    Call("SuperInstance.get_special_attribute", self, n,
         [name |-> name, valself |-> None],
         SuperInstance_get_special_attribute(self, n, name, None))

\* The interpreter calls the NativeFunction it was given as __get__.
SuperInstanceGet ==
  \E f \in {v \in Held : v.kind = "NativeFunction" /\ v.func = "get"},
     n \in Nodes, a \in MethodArguments :
    Call("SuperInstance.get", f.self, n, a, SuperInstance_get(f.self, n, a))

\* The interpreter calls the NativeFunction it was given as __set__.
SuperInstanceSet ==
  \E f \in {v \in Held : v.kind = "NativeFunction" /\ v.func = "set"},
     n \in Nodes, a \in MethodArguments :
    Call("SuperInstance.set", f.self, n, a, SuperInstance_set(f.self, n, a))

SuperInstanceCall ==
  \E self \in LiveInstances, n \in Nodes, a \in MethodArguments :
    Call("SuperInstance.call", self, n, a, SuperInstance_call(self, n, a))

Next ==
  \/ TypeNewCall
  \/ IsInstanceCall
  \/ SuperCall
  \/ SuperInstanceGetSpecialAttribute
  \/ SuperInstanceGet
  \/ SuperInstanceSet
  \/ SuperInstanceCall

Spec == Init /\ [][Next]_vars

(***************************************************************************)
(* Vocabulary of the properties.                                           *)
(***************************************************************************)
\* The exception that escaped the call, by name.
RaisedType == IF raised = None THEN "none" ELSE raised.type

\* The errors of the shape of a call.
CallShapeErrors == {"WrongArgCount", "WrongKeywordArgs", "WrongArgTypes"}

\* The result is one Unsolvable bound at the node of the call.
SingleUnsolvable ==
  /\ result # None
  /\ Len(result.bindings) = 1
  /\ result.bindings[1].data = Unsolvable
  /\ result.bindings[1].where = node

\* An isinstance call with exactly two positional arguments and no keyword.
WellFormedIsInstance ==
  /\ op = "IsInstance.call"
  /\ Len(args.posargs) = 2
  /\ DOMAIN args.namedargs = {}

\* The bindings of the result whose provenance is source_set.
BindingsFrom(source_set) ==
  {k \in 1..Len(result.bindings) : result.bindings[k].source_set = source_set}

\* The data of the i-th binding of the p-th positional argument.
ArgData(p, i) == args.posargs[p].bindings[i].data

(***************************************************************************)
(* C1: an isinstance call with a number of positional arguments other than  *)
(* 2, or with 2 and a keyword argument, returns normally one Unsolvable     *)
(* bound at node and nothing else, and invokes                              *)
(* errorlog.invalid_function_call exactly once; a well-formed call does not *)
(* invoke the error log.                                                    *)
(***************************************************************************)
Thm_C1_IsInstanceArity ==
  op = "IsInstance.call" =>
    /\ raised = None
    /\ ret_node = node
    /\ IF WellFormedIsInstance
       THEN errorlog = <<>>
       ELSE /\ SingleUnsolvable
            /\ Len(errorlog) = 1
            /\ errorlog[1].method = "invalid_function_call"

Wit_C1_IsInstanceArity ==
  /\ op = "IsInstance.call"
  /\ Len(args.posargs) = 2
  /\ DOMAIN args.namedargs # {}
  /\ Len(args.posargs[1].bindings) = 1
  /\ Len(args.posargs[2].bindings) = 1
  /\ SingleUnsolvable
  /\ Len(errorlog) = 1

(***************************************************************************)
(* C2: a well-formed isinstance call adds exactly one binding per pair      *)
(* (left, right) of the cross-product of the bindings of its arguments,    *)
(* with source set (left, right) and where = node; its value is the        *)
(* unresolved bool if the object is ambiguous or empty, has no class or a  *)
(* class Variable that does not hold exactly one value; else true if a     *)
(* class flattened from right.data is in the MRO of the object's class;    *)
(* else the unresolved bool if the flattening skipped anything, at any     *)
(* depth; else false.                                                      *)
(***************************************************************************)
RECURSIVE FlattenedClasses(_)

\* The classes of a class specification: itself, or those of the elements of
\* a tuple that have exactly one binding.
FlattenedClasses(value) ==
  IF value.kind = "Class" THEN {value}
  ELSE IF value.kind = "Tuple"
  THEN UNION {IF Len(value.pyval[k].bindings) = 1
              THEN FlattenedClasses(value.pyval[k].bindings[1].data)
              ELSE {}
              : k \in 1..Len(value.pyval)}
  ELSE {}

RECURSIVE Skips(_)

\* Whether something of a class specification is skipped: a value that is
\* neither a class nor a tuple, or an element without exactly one binding.
Skips(value) ==
  IF value.kind = "Class" THEN FALSE
  ELSE IF value.kind = "Tuple"
  THEN \E k \in 1..Len(value.pyval) :
         \/ Len(value.pyval[k].bindings) # 1
         \/ Skips(value.pyval[k].bindings[1].data)
  ELSE TRUE

\* The object has one known class.
HasOneClass(obj) ==
  /\ obj.kind \notin {"Unknown", "Unsolvable", "Empty"}
  /\ obj.kind = "Instance"
  /\ obj.cls # None
  /\ Len(obj.cls.bindings) = 1

ClassOf(obj) == obj.cls.bindings[1].data

Ancestors(cls) == {mro(cls)[k] : k \in 1..Len(mro(cls))}

\* The verdict of the claim, as a value of the engine.
Verdict(obj, class_spec) ==
  IF ~HasOneClass(obj) THEN convert_bool_instance
  ELSE IF FlattenedClasses(class_spec) \cap Ancestors(ClassOf(obj)) # {}
  THEN convert_true
  ELSE IF Skips(class_spec) THEN convert_bool_instance
  ELSE convert_false

Thm_C2_IsInstanceVerdict ==
  WellFormedIsInstance =>
    /\ Len(result.bindings)
         = Len(args.posargs[1].bindings) * Len(args.posargs[2].bindings)
    /\ \A i \in 1..Len(args.posargs[1].bindings),
          j \in 1..Len(args.posargs[2].bindings) :
         LET added == BindingsFrom(<<BindingRef(1, i), BindingRef(2, j)>>) IN
         /\ Cardinality(added) = 1
         /\ \A k \in added :
              /\ result.bindings[k].where = node
              /\ result.bindings[k].data = Verdict(ArgData(1, i), ArgData(2, j))

\* Two objects against one tuple: the first is an instance of one of its
\* classes, the verdict on the second is the unresolved bool.
Wit_C2_IsInstanceVerdict ==
  /\ WellFormedIsInstance
  /\ Len(args.posargs[1].bindings) = 2
  /\ Len(args.posargs[2].bindings) = 1
  /\ ArgData(1, 1) # ArgData(1, 2)
  /\ HasOneClass(ArgData(1, 1))
  /\ ArgData(2, 1).kind = "Tuple"
  /\ Len(result.bindings) = 2
  /\ result.bindings[1].data = convert_true
  /\ result.bindings[2].data = convert_bool_instance

(***************************************************************************)
(* C3: the verdict of isinstance does not depend on order: permuting the    *)
(* elements of a tuple of candidate classes leaves each verdict unchanged,  *)
(* reordering the bindings of the argument Variables leaves the multiset of *)
(* verdicts unchanged, and the verdict is true whenever some element of the *)
(* tuple with one binding is a class in the MRO of the object's class,     *)
(* wherever it sits and whatever the other elements are.                   *)
(***************************************************************************)
\* The sequence seq reordered by the permutation p of its indices.
Reordered(seq, p) == [k \in 1..Len(seq) |-> seq[p[k]]]

\* The number of bindings of a Variable bound to value.
Count(var, value) ==
  Cardinality({k \in 1..Len(var.bindings) : var.bindings[k].data = value})

\* Some element of the tuple has one binding, a class of the MRO of the
\* class of obj.
HasMatchingElement(obj, tuple) ==
  \E k \in 1..Len(tuple.pyval) :
    /\ Len(tuple.pyval[k].bindings) = 1
    /\ tuple.pyval[k].bindings[1].data.kind = "Class"
    /\ tuple.pyval[k].bindings[1].data \in Ancestors(ClassOf(obj))

Thm_C3_IsInstanceOrder ==
  WellFormedIsInstance =>
    /\ \A i \in 1..Len(args.posargs[1].bindings),
          j \in 1..Len(args.posargs[2].bindings) :
         ArgData(2, j).kind = "Tuple" =>
           \A k \in BindingsFrom(<<BindingRef(1, i), BindingRef(2, j)>>) :
             /\ \A p \in Permutations(1..Len(ArgData(2, j).pyval)) :
                  vm_values(is_instance(ArgData(1, i),
                                        Tuple(Reordered(ArgData(2, j).pyval, p))))
                    = result.bindings[k].data
             /\ (HasOneClass(ArgData(1, i))
                 /\ HasMatchingElement(ArgData(1, i), ArgData(2, j)))
                  => result.bindings[k].data = convert_true
    /\ \A p \in Permutations(1..Len(args.posargs[1].bindings)),
          q \in Permutations(1..Len(args.posargs[2].bindings)) :
         LET again ==
               IsInstance_call(
                 node,
                 Arguments(<<[bindings |-> Reordered(args.posargs[1].bindings, p)],
                             [bindings |-> Reordered(args.posargs[2].bindings, q)]>>,
                           NoNamedargs))
         IN \A value \in {convert_true, convert_false, convert_bool_instance} :
              Count(again.result, value) = Count(result, value)

\* An instance of a subclass of C against a tuple whose first element has
\* two bindings and whose second is C.
Wit_C3_IsInstanceOrder ==
  /\ WellFormedIsInstance
  /\ Len(args.posargs[1].bindings) = 1
  /\ Len(args.posargs[2].bindings) = 1
  /\ ArgData(2, 1).kind = "Tuple"
  /\ Len(ArgData(2, 1).pyval) = 2
  /\ Len(ArgData(2, 1).pyval[1].bindings) = 2
  /\ HasOneClass(ArgData(1, 1))
  /\ HasMatchingElement(ArgData(1, 1), ArgData(2, 1))
  /\ result.bindings[1].data = convert_true

(***************************************************************************)
(* C4: every call-shape error (WrongArgCount, WrongKeywordArgs,             *)
(* WrongArgTypes) arising in the call of isinstance or of super is caught   *)
(* within that call, logged exactly once and downgraded to an Unsolvable    *)
(* bound at node, so that none escapes; only type.__new__ lets its          *)
(* signature-match failure propagate.                                       *)
(***************************************************************************)
\* The call is one whose shape is in error.
ShapeErrorArises ==
  \/ /\ op = "IsInstance.call"
     /\ ~WellFormedIsInstance
  \/ /\ op = "Super.call"
     /\ \/ Len(args.posargs) \notin {1, 2}
        \/ /\ Len(args.posargs) = 2
           /\ \E i \in 1..Len(args.posargs[1].bindings) :
                ArgData(1, i).kind \notin {"Class", "Unknown", "Unsolvable", "Empty"}

\* The claim as stated.
Orig_C4_ShapeErrorsCaught ==
  /\ op \in {"IsInstance.call", "Super.call"} => RaisedType \notin CallShapeErrors
  /\ ShapeErrorArises =>
       /\ Len(errorlog) = 1
       /\ SingleUnsolvable
       /\ ret_node = node

\* As amended: the errors of isinstance are caught, logged once and
\* downgraded within IsInstance.call; those of super (WrongArgCount,
\* WrongArgTypes) escape Super.call, which logs nothing and returns nothing,
\* as the signature-match failure escapes TypeNew.call.
Thm_C4_ShapeErrors ==
  /\ (op = "IsInstance.call" /\ ShapeErrorArises) =>
       /\ raised = None
       /\ Len(errorlog) = 1
       /\ errorlog[1].method = "invalid_function_call"
       /\ errorlog[1].ex.type \in CallShapeErrors
       /\ SingleUnsolvable
       /\ ret_node = node
  /\ (op = "Super.call" /\ ShapeErrorArises) =>
       /\ RaisedType \in CallShapeErrors
       /\ errorlog = <<>>
       /\ ret_node = None
  /\ (op \in {"IsInstance.call", "Super.call"} /\ ~ShapeErrorArises) =>
       /\ raised = None
       /\ errorlog = <<>>
  /\ (op = "TypeNew.call" /\ raised # None) =>
       /\ RaisedType = "FailedFunctionCall"
       /\ errorlog = <<>>
       /\ ret_node = None

Wit_C4_ShapeErrors ==
  /\ op = "Super.call"
  /\ Len(args.posargs) = 2
  /\ RaisedType = "WrongArgTypes"
  /\ errorlog = <<>>
  /\ ret_node = None

(***************************************************************************)
(* C5: a call of isinstance or of super with a keyword argument fails with  *)
(* WrongKeywordArgs carrying the offending keys, and a call that fails the  *)
(* validation of its shape has added no binding to the result and has       *)
(* constructed no SuperInstance.                                            *)
(***************************************************************************)
\* The claim as stated; the failure of isinstance is the one it logs.
Orig_C5_KeywordsRejected ==
  /\ (op = "Super.call" /\ DOMAIN args.namedargs # {}) =>
       /\ RaisedType = "WrongKeywordArgs"
       /\ raised.extra_keywords = DOMAIN args.namedargs
  /\ (op = "IsInstance.call" /\ DOMAIN args.namedargs # {}) =>
       /\ Len(errorlog) = 1
       /\ errorlog[1].ex.type = "WrongKeywordArgs"
       /\ errorlog[1].ex.extra_keywords = DOMAIN args.namedargs
  /\ (op = "Super.call" /\ raised # None) => result.bindings = <<>>

(***************************************************************************)
(* C6: Super.call fails with WrongArgCount exactly when it has neither 1    *)
(* nor 2 positional arguments; with 2 it fails with WrongArgTypes carrying  *)
(* BadParam(name="cls", expected=type) exactly when a binding of cls is     *)
(* neither a Class nor an ambiguous or empty value, wherever that binding   *)
(* is and also when obj has no binding; a failing call returns nothing.     *)
(***************************************************************************)
Thm_C6_SuperFailures ==
  op = "Super.call" =>
    /\ RaisedType = "WrongArgCount" <=> Len(args.posargs) \notin {1, 2}
    /\ RaisedType \in {"none", "WrongArgCount", "WrongArgTypes"}
    /\ RaisedType = "WrongArgTypes" <=>
         /\ Len(args.posargs) = 2
         /\ \E i \in 1..Len(args.posargs[1].bindings) :
              ArgData(1, i).kind \notin {"Class", "Unknown", "Unsolvable", "Empty"}
    /\ RaisedType = "WrongArgTypes" =>
         raised.bad_param = [name |-> "cls", expected |-> Class("type")]
    /\ raised # None => ret_node = None

\* The second binding of cls is an instance and obj has no binding.
Wit_C6_SuperFailures ==
  /\ op = "Super.call"
  /\ Len(args.posargs) = 2
  /\ Len(args.posargs[1].bindings) = 2
  /\ ArgData(1, 1).kind = "Class"
  /\ ArgData(1, 2).kind = "Instance"
  /\ Len(args.posargs[2].bindings) = 0
  /\ RaisedType = "WrongArgTypes"

(***************************************************************************)
(* C7: a successful Super.call returns the node it was given and a result   *)
(* holding, with 1 positional argument, one new SuperInstance per binding   *)
(* of it (super_cls the data of the binding whatever it is, super_obj None, *)
(* provenance [cls_binding]) and, with 2, one new SuperInstance per pair of *)
(* the cross-product (super_cls = cls.data, super_obj = obj.data,           *)
(* provenance [cls_binding, obj_binding]); no SuperInstance is shared       *)
(* between two bindings or two calls, and the arguments are left unchanged. *)
(***************************************************************************)
\* The result has exactly one binding of provenance source_set, bound at the
\* node to a SuperInstance of cls and obj.
OneSuperInstanceFrom(source_set, cls, obj) ==
  /\ Cardinality(BindingsFrom(source_set)) = 1
  /\ \A k \in BindingsFrom(source_set) :
       /\ result.bindings[k].where = node
       /\ result.bindings[k].data.kind = "SuperInstance"
       /\ result.bindings[k].data.super_cls = cls
       /\ result.bindings[k].data.super_obj = obj

SuperResult ==
  (op = "Super.call" /\ raised = None) =>
    /\ ret_node = node
    /\ Len(args.posargs) \in {1, 2}
    /\ Len(args.posargs) = 1 =>
         /\ Len(result.bindings) = Len(args.posargs[1].bindings)
         /\ \A i \in 1..Len(args.posargs[1].bindings) :
              OneSuperInstanceFrom(<<BindingRef(1, i)>>, ArgData(1, i), None)
    /\ Len(args.posargs) = 2 =>
         /\ Len(result.bindings)
              = Len(args.posargs[1].bindings) * Len(args.posargs[2].bindings)
         /\ \A i \in 1..Len(args.posargs[1].bindings),
               j \in 1..Len(args.posargs[2].bindings) :
              OneSuperInstanceFrom(<<BindingRef(1, i), BindingRef(2, j)>>,
                                   ArgData(1, i), ArgData(2, j))
    /\ \A k, l \in 1..Len(result.bindings) :
         k # l => result.bindings[k].data.id # result.bindings[l].data.id

\* A call of super returns no object that was alive before it, and leaves
\* the Arguments record as it was.
SuperStep ==
  (op' = "Super.call" /\ raised' = None) =>
    /\ \A k \in 1..Len(result'.bindings) :
         result'.bindings[k].data.id \notin {s.id : s \in LiveInstances}
    /\ args' = args

Thm_C7_SuperResult == []SuperResult /\ [][SuperStep]_vars

\* The second run of a call of super with two bindings of cls and one of
\* obj, cls being once no Class but an ambiguous value.
Wit_C7_SuperResult ==
  /\ op = "Super.call"
  /\ raised = None
  /\ Len(args.posargs) = 2
  /\ Len(args.posargs[1].bindings) = 2
  /\ Len(args.posargs[2].bindings) = 1
  /\ Len(result.bindings) = 2
  /\ result.bindings[1].data.id = 3
  /\ result.bindings[2].data.id = 4

(***************************************************************************)
(* C8: TypeNew.call invokes MakeClass at most once, and exactly when it has *)
(* 4 positional arguments, the signature matches and bases_var converts to  *)
(* a constant sequence; MakeClass is then given (node, name_var, bases,     *)
(* class_dict_var, metaclass), bases being the sequence or [object] when    *)
(* the sequence is empty, and its Variable is returned with the node; with  *)
(* another arity or on ConversionError the call is the generic call; on a   *)
(* failure of the signature match the failure escapes and MakeClass is not  *)
(* invoked.                                                                 *)
(***************************************************************************)
\* The invocations of a collaborator during the call.
CallsOf(name) == {k \in 1..Len(calls) : calls[k].callee = name}

\* bases_var holds one constant sequence whose elements have one binding.
BasesConvert ==
  /\ Len(args.posargs[3].bindings) = 1
  /\ ArgData(3, 1).kind = "Tuple"
  /\ \A k \in 1..Len(ArgData(3, 1).pyval) :
       Len(ArgData(3, 1).pyval[k].bindings) = 1

Thm_C8_TypeNew ==
  op = "TypeNew.call" =>
    /\ Cardinality(CallsOf("make_class")) <= 1
    /\ CallsOf("make_class") # {} <=>
         /\ Len(args.posargs) = 4
         /\ DOMAIN args.namedargs = {}
         /\ BasesConvert
    /\ CallsOf("make_class") # {} =>
         /\ Len(calls) = 1
         /\ calls[1].args
              = <<node, args.posargs[2],
                  IF ArgData(3, 1).pyval = <<>>
                  THEN <<Variable(<<Class("object")>>)>>
                  ELSE ArgData(3, 1).pyval,
                  args.posargs[4], args.posargs[1]>>
         /\ result = make_class(calls[1].args[1], calls[1].args[2],
                                calls[1].args[3], calls[1].args[4],
                                calls[1].args[5])
         /\ raised = None
         /\ ret_node = node
    /\ (Len(args.posargs) = 4 /\ DOMAIN args.namedargs # {}) =>
         /\ RaisedType = "FailedFunctionCall"
         /\ calls = <<>>
         /\ ret_node = None
    /\ (\/ Len(args.posargs) # 4
        \/ DOMAIN args.namedargs = {} /\ ~BasesConvert) =>
         /\ raised = None
         /\ calls = <<[callee |-> "PyTDFunction.call",
                       args |-> <<node, callee, args>>]>>

\* The bases are the empty tuple: the class is made with the base object.
Wit_C8_TypeNew ==
  /\ op = "TypeNew.call"
  /\ Len(args.posargs) = 4
  /\ Len(args.posargs[3].bindings) = 1
  /\ ArgData(3, 1) = Tuple(<<>>)
  /\ CallsOf("make_class") = {1}
  /\ calls[1].args[3] = <<Variable(<<Class("object")>>)>>
  /\ result.bindings[1].data.bases = <<Variable(<<Class("object")>>)>>

(***************************************************************************)
(* C9: every result Variable returned by a call of isinstance, of super or  *)
(* of a SuperInstance has at least one Binding, also when an argument       *)
(* Variable has no binding.                                                 *)
(***************************************************************************)
\* The claim as stated.
Orig_C9_ResultNotEmpty ==
  (/\ op \in {"IsInstance.call", "Super.call", "SuperInstance.call",
              "SuperInstance.get", "SuperInstance.set"}
   /\ raised = None) =>
    Len(result.bindings) >= 1

(***************************************************************************)
(* C10: for a SuperInstance s and a node n, get_special_attribute of        *)
(* "__get__" and of "__set__" return a Variable holding the method bound to *)
(* s; a call of either method with any arguments returns n and a Variable   *)
(* whose only data is s, with super_cls and super_obj unchanged; any other  *)
(* name is delegated to the generic lookup; get_class() is the super type;  *)
(* a call of s logs not_callable once and yields Unsolvable.                *)
(***************************************************************************)
SuperInstanceShim ==
  /\ op = "SuperInstance.get_special_attribute" =>
       IF args.name \in {"__get__", "__set__"}
       THEN /\ Len(result.bindings) = 1
            /\ result.bindings[1].data.kind = "NativeFunction"
            /\ result.bindings[1].data.name = args.name
            /\ result.bindings[1].data.func
                 = (IF args.name = "__get__" THEN "get" ELSE "set")
            /\ result.bindings[1].data.self = callee
            /\ calls = <<>>
       ELSE calls = <<[callee |-> "AtomicAbstractValue.get_special_attribute",
                       args |-> <<node, args.name, args.valself>>]>>
  /\ op \in {"SuperInstance.get", "SuperInstance.set"} =>
       /\ raised = None
       /\ ret_node = node
       /\ Len(result.bindings) = 1
       /\ result.bindings[1].data = callee
       /\ errorlog = <<>>
  /\ op = "SuperInstance.call" =>
       /\ raised = None
       /\ ret_node = node
       /\ SingleUnsolvable
       /\ errorlog = <<[method |-> "not_callable", value |-> callee]>>
  /\ \A s \in LiveInstances :
       /\ SuperInstance_get_class(s) = Variable(<<Class("super")>>)
       /\ SuperInstance_get_class(s) # s.super_cls

\* The object a method returns is the object the method was bound to, as it
\* was before the call.
SuperInstanceRoundTrip ==
  op' \in {"SuperInstance.get", "SuperInstance.set"} =>
    \E f \in {v \in Held : v.kind = "NativeFunction"} :
      /\ result'.bindings[1].data = f.self
      /\ result'.bindings[1].data.super_cls = f.self.super_cls
      /\ result'.bindings[1].data.super_obj = f.self.super_obj

Thm_C10_SuperInstance == []SuperInstanceShim /\ [][SuperInstanceRoundTrip]_vars

\* __get__ of a SuperInstance of an object was called with an argument.
Wit_C10_SuperInstance ==
  /\ op = "SuperInstance.get"
  /\ Len(args.posargs) = 1
  /\ callee.kind = "SuperInstance"
  /\ callee.super_obj # None
  /\ result.bindings[1].data = callee

====
